---- MODULE Spec2Model ----
(***************************************************************************)
(* Model of the job lifecycle client in frontend/js/app.js (ResearchApp):   *)
(* the two start handlers, their poll loops, the delayed hide of the        *)
(* progress section and the result display.  One step of the model is one   *)
(* run of a handler between two awaits of the JavaScript event loop.        *)
(***************************************************************************)
EXTENDS Integers, Sequences, FiniteSets, TLC

\* ------------------------------------------------------------------ bounds
\* Number of start actions (research submits and PDF uploads) of one session.
MaxStarts == 2

\* Largest number of data rows of a table handed to the renderer.
MaxRows == 120

\* ---------------------------------------------------------------- constants
\* table.data.slice(0, 50)
PreviewRows == 50
\* score thresholds 0.8 and 0.6 of getQualityColor, in units of 0.00001
HighScore == 80000
MediumScore == 60000
\* this.currentJobId = null / result.job_id undefined
NoJob == 0
\* a payload field that is absent (undefined)
Absent == -1

\* values of #research-topic: sequences of characters, blank or not
Topics == {<<>>, <<" ">>, <<"a">>, <<" ", "a">>}

\* topic.trim() is the empty string
TrimIsEmpty(topic) == \A i \in DOMAIN topic : topic[i] = " "

\* texts written to #progress-text
ErrorTexts == {"Error: <message>", "Upload error: <message>",
               "Tracking error: <message>",
               "Research failed: <error>", "Research failed: undefined",
               "Processing failed: <error>", "Processing failed: undefined"}

\* outcome of a submission call (POST /research/start, POST /pdf/upload)
SubmitOutcomes == {"network_error", "non_2xx", "bad_json", "ok_job_id", "ok_no_job_id"}

\* ------------------------------------------------------------- table values
\* JavaScript values of table cells: [t, n] with n the number, the truth
\* value (0, 1) or the string ('' is 0, 'x' is 1)
Undefined == [t |-> "undefined", n |-> 0]
Null == [t |-> "null", n |-> 0]
Num(n) == [t |-> "number", n |-> n]
Bool(b) == [t |-> "boolean", n |-> IF b THEN 1 ELSE 0]
Str(n) == [t |-> "string", n |-> n]

\* the values a cell of column b takes
CellValues == {Undefined, Null, Num(0), Num(7), Bool(FALSE), Bool(TRUE), Str(0), Str(1)}

\* a value is falsy: undefined, null, 0, false, ''
IsFalsy(v) == v.t \in {"undefined", "null"} \/ v.n = 0

\* `${v}`: the text of a value in a template literal
ToText(v) ==
    CASE v.t = "number" -> ToString(v.n)
      [] v.t = "boolean" -> (IF v.n = 1 THEN "true" ELSE "false")
      [] v.t = "string" -> (IF v.n = 0 THEN "" ELSE "x")
      [] v.t = "null" -> "null"
      [] OTHER -> "undefined"

\* data rows: row i has its own number in column a and, in column b, the
\* values of the pattern bs in turn (an undefined cell is a missing key)
DataRows(n, bs) ==
    [i \in 1..n |-> [a |-> Num(i), b |-> bs[((i - 1) % Len(bs)) + 1]]]

\* Object.keys(row): the keys that are there, in the row's order
ObjectKeys(row) ==
    <<"a">> \o (IF row.b = Undefined THEN <<>> ELSE <<"b">>)

\* row[header]: the cell, undefined for a key that is not there
Cell(row, header) ==
    IF header = "a" THEN row.a ELSE IF header = "b" THEN row.b ELSE Undefined

\* a table entry of a result payload.  type is "object" for a table object,
\* "string" for a string and "null" for null; the fields of an object are
\* present or absent (row_count, quality_score: Absent)
TableEntry(type, hasData, data, hasColumns, columns, row_count, preview_only, score) ==
    [type |-> type, hasData |-> hasData, data |-> data,
     hasColumns |-> hasColumns, columns |-> columns, row_count |-> row_count,
     preview_only |-> preview_only, quality_score |-> score]

NullEntry == TableEntry("null", FALSE, <<>>, FALSE, <<>>, Absent, FALSE, Absent)
StringEntry == TableEntry("string", FALSE, <<>>, FALSE, <<>>, Absent, FALSE, Absent)
\* a table of one row with both cells
SampleTable ==
    TableEntry("object", TRUE, DataRows(1, <<Str(1)>>), FALSE, <<>>, 1, FALSE, 90000)

\* ------------------------------------------------------------ server inputs
\* tables lists of the status payloads: a table, or a table and a null
TableLists == {<<SampleTable>>, <<SampleTable, NullEntry>>}

\* the argument of displayResults: undefined, or an object whose fields
\* tables and processing_time are each present or absent; table_count is
\* the length of the tables list when the list is there
ResultPayloads ==
    {[defined |-> FALSE, table_count |-> Absent, hasTables |-> FALSE,
      tables |-> <<>>, processing_time |-> Absent]}
    \cup
    {[defined |-> TRUE, table_count |-> Absent, hasTables |-> FALSE,
      tables |-> <<>>, processing_time |-> pt] : pt \in {Absent, 3}}
    \cup
    {[defined |-> TRUE, table_count |-> Len(ts), hasTables |-> TRUE,
      tables |-> ts, processing_time |-> pt] :
        ts \in TableLists, pt \in {Absent, 3}}

\* status.results of a research status payload; the PDF handler builds the
\* object itself from status.tables, status.processing_time, status.table_count
ResultsOf(kind) ==
    IF kind = "research" THEN ResultPayloads
    ELSE {p \in ResultPayloads : p.defined}

\* JSON body of an answer without a status field, such as the {detail: ...}
\* body that comes with a non-2xx answer
ErrorBodies ==
    {[status |-> "none", progress |-> Absent, message |-> "undefined",
      found |-> FALSE, error |-> FALSE, results |-> r] :
        r \in {x \in ResultPayloads : ~x.defined}}

\* JSON bodies of a status response
StatusPayloads(kind) ==
    {[status |-> "in_progress", progress |-> 40, message |-> "<message>",
      found |-> f, error |-> FALSE, results |-> r] :
        f \in (IF kind = "research" THEN BOOLEAN ELSE {FALSE}),
        r \in {x \in ResultPayloads : ~x.defined}}
    \cup
    {[status |-> "completed", progress |-> pr, message |-> "<message>",
      found |-> FALSE, error |-> FALSE, results |-> r] :
        pr \in {40, 100}, r \in ResultsOf(kind)}
    \cup
    {[status |-> "failed", progress |-> 40, message |-> "<message>",
      found |-> FALSE, error |-> e, results |-> r] :
        e \in BOOLEAN, r \in {x \in ResultPayloads : ~x.defined}}
    \cup
    ErrorBodies

\* the bodies with status completed, per status endpoint
CompletedResearchBodies == {p \in StatusPayloads("research") : p.status = "completed"}
CompletedPdfBodies == {p \in StatusPayloads("pdf") : p.status = "completed"}
CompletedBodies(kind) ==
    IF kind = "research" THEN CompletedResearchBodies ELSE CompletedPdfBodies

\* bodies that can come with response.ok (2xx) and without it
HttpBodies(kind, ok) == IF ok THEN StatusPayloads(kind) ELSE ErrorBodies

\* ---------------------------------------------------------------- variables
VARIABLES
    currentJobId,     \* this.currentJobId
    nStarts,          \* number of start actions issued so far
    submits,          \* submission requests in flight: [att, kind]
    statusReqs,       \* status requests in flight: [loop, id, kind]
    pollTimers,       \* pending setTimeout(track...): [loop, kind]
    hideTimers,       \* number of pending setTimeout(hideProgress, 3000)
    hasFile,          \* manualPdfInput.files.length > 0
    uploadBtnDisabled,\* uploadBtn.disabled
    formDisabled,     \* disabled flag of #start-research, #research-topic, #pdf-count
    progressVisible,  \* progressSection.style.display = 'block'
    progressFill,     \* progressFill.style.width, in percent
    progressText,     \* progressText.textContent
    progressBy,       \* who wrote the progress last: [loop, id, src]
    foundPdfs,        \* job id whose found_pdfs list is in #found-pdfs (0: empty)
    resultsShown,     \* resultsSection.style.display = 'block'
    resultsStats,     \* number in "N tables extracted" (Absent: empty)
    researchSummary,  \* [time, count] of the summary (time Absent: empty)
    tablesContainer,  \* children of #tables-container
    resultsBy,        \* job id whose completion opened the results section
    terminal,         \* job ids for which a response reported completed/failed
    call,             \* the renderer function applied last and its argument
    ret               \* what that function returned or rendered

net == <<submits, statusReqs, pollTimers, hideTimers>>
upload == <<hasFile, uploadBtnDisabled>>
progressUI == <<progressFill, progressText, progressBy>>
resultsUI == <<resultsShown, resultsStats, researchSummary, tablesContainer, resultsBy>>
render == <<call, ret>>
lifecycle == <<currentJobId, nStarts, submits, statusReqs, pollTimers, hideTimers,
               hasFile, uploadBtnDisabled, formDisabled, progressVisible,
               progressFill, progressText, progressBy, foundPdfs,
               resultsShown, resultsStats, researchSummary, tablesContainer,
               resultsBy, terminal>>
vars == <<currentJobId, nStarts, submits, statusReqs, pollTimers, hideTimers,
          hasFile, uploadBtnDisabled, formDisabled, progressVisible,
          progressFill, progressText, progressBy, foundPdfs,
          resultsShown, resultsStats, researchSummary, tablesContainer,
          resultsBy, terminal, call, ret>>

\* --------------------------------------------------------------------- Init
Init ==
    /\ currentJobId = NoJob
    /\ nStarts = 0
    /\ submits = {}
    /\ statusReqs = {}
    /\ pollTimers = {}
    /\ hideTimers = 0
    /\ hasFile = FALSE
    /\ uploadBtnDisabled = TRUE
    /\ formDisabled = FALSE
    /\ progressVisible = FALSE
    /\ progressFill = 0
    /\ progressText = "Initializing..."
    /\ progressBy = [loop |-> 0, id |-> NoJob, src |-> "init"]
    /\ foundPdfs = 0
    /\ resultsShown = FALSE
    /\ resultsStats = Absent
    /\ researchSummary = [time |-> Absent, count |-> 0]
    /\ tablesContainer = <<>>
    /\ resultsBy = NoJob
    /\ terminal = {}
    /\ call = [fn |-> "none", arg |-> 0]
    /\ ret = 0

\* ----------------------------------------------------------- pure functions
\* JavaScript truthiness of a numeric payload field (absent and 0 are falsy)
Truthy(x) == x # Absent /\ x # 0

\* getQualityColor: the colour of a quality score (in units of 0.00001)
getQualityColor(score) ==
    IF ~Truthy(score) THEN "#666"
    ELSE IF score >= HighScore THEN "#28a745"
    ELSE IF score >= MediumScore THEN "#ffc107"
    ELSE "#dc3545"

\* the smaller of two numbers
Min(a, b) == IF a <= b THEN a ELSE b

\* a preview that lets one row too many through
PreviewOfOneMore(data) == SubSeq(data, 1, Min(Len(data), PreviewRows + 1))

\* table.data.slice(0, 50)
PreviewOf(data) == SubSeq(data, 1, Min(Len(data), PreviewRows))

\* a cell written without the `|| ''` default
CellTextRaw(row, header) == ToText(Cell(row, header))

\* `${row[header] || ''}`: the text of one cell
CellText(row, header) ==
    IF IsFalsy(Cell(row, header)) THEN "" ELSE ToText(Cell(row, header))

\* a renderer that gives the placeholder only when data is absent: an empty
\* data list gets a table of a header row and no body rows
createTableHTMLEmptyTable(table) ==
    IF ~table.hasData
    THEN [kind |-> "no-data", headers |-> <<>>, body |-> <<>>]
    ELSE LET headers == IF table.hasColumns THEN table.columns
                        ELSE IF Len(table.data) = 0 THEN <<>>
                        ELSE ObjectKeys(table.data[1])
             rows == PreviewOf(table.data)
         IN  [kind |-> "table", headers |-> headers,
              body |-> [i \in 1..Len(rows) |->
                          [j \in 1..Len(headers) |-> CellText(rows[i], headers[j])]]]

\* createTableHTML: the placeholder paragraph for a table without data rows,
\* otherwise the header row and one body row per previewed data row
createTableHTML(table) ==
    IF ~table.hasData \/ Len(table.data) = 0
    THEN [kind |-> "no-data", headers |-> <<>>, body |-> <<>>]
    ELSE LET headers == IF table.hasColumns THEN table.columns
                        ELSE ObjectKeys(table.data[1])
             rows == PreviewOf(table.data)
         IN  [kind |-> "table", headers |-> headers,
              body |-> [i \in 1..Len(rows) |->
                          [j \in 1..Len(headers) |-> CellText(rows[i], headers[j])]]]

\* createTableCard of an entry that is not null: the meta line, the colour
\* of the score, the table and the note of a preview_only table
createTableCard(table, index) ==
    [index |-> index,
     row_count |-> table.row_count,
     color |-> getQualityColor(table.quality_score),
     html |-> createTableHTML(table),
     note |-> table.preview_only]

\* index of the first null entry of a table list, Len+1 if there is none
RECURSIVE FirstNull(_, _)
FirstNull(ts, i) ==
    IF i > Len(ts) THEN i
    ELSE IF ts[i].type = "null" THEN i ELSE FirstNull(ts, i + 1)

\* displayTables: the container is cleared, an empty list gives the
\* placeholder card, otherwise one card per entry is appended until
\* createTableCard throws on a null entry (table.quality_score of null)
displayTables(ts) ==
    IF Len(ts) = 0
    THEN [container |-> <<"no-tables-placeholder">>, threw |-> FALSE]
    ELSE LET n == FirstNull(ts, 1)
         IN  [container |-> [i \in 1..(n - 1) |-> createTableCard(ts[i], i)],
              threw |-> n <= Len(ts)]

\* displayResults after its first three statements: the stats line, the
\* summary and the tables, up to the statement that throws
displayResults(res) ==
    IF ~res.defined
    THEN \* results.table_count of undefined: TypeError
         [stats |-> resultsStats, summary |-> researchSummary,
          container |-> tablesContainer, threw |-> TRUE]
    ELSE LET dt == displayTables(IF res.hasTables THEN res.tables ELSE <<>>)
         IN  [stats |-> IF Truthy(res.table_count) THEN res.table_count
                        ELSE IF res.hasTables /\ Len(res.tables) # 0
                             THEN Len(res.tables) ELSE 0,
              summary |-> IF Truthy(res.processing_time)
                          THEN [time |-> res.processing_time,
                                count |-> IF Truthy(res.table_count)
                                          THEN res.table_count ELSE 0]
                          ELSE researchSummary,
              container |-> dt.container,
              threw |-> dt.threw]

\* progressFill.style.width = `${percentage}%`: 'undefined%' is not a valid
\* width and the assignment is ignored
FillAfter(percentage) == IF percentage = Absent THEN progressFill ELSE percentage

\* text of the catch block of a start handler
SubmitErrorText(kind) ==
    IF kind = "research" THEN "Error: <message>" ELSE "Upload error: <message>"

\* text of the failed branch of a poll handler
FailedText(kind, hasError) ==
    IF kind = "research"
    THEN (IF hasError THEN "Research failed: <error>" ELSE "Research failed: undefined")
    ELSE (IF hasError THEN "Processing failed: <error>" ELSE "Processing failed: undefined")

\* completion that also waits for the progress to reach 100
IsCompletedAtFull(p) == p.status = "completed" /\ p.progress = 100

\* status.status === 'completed': the progress value is not consulted
IsCompleted(p) == p.status = "completed"

\* a catch block that retries: it schedules the next poll of its loop
PollTimersAfterCatchRetry(r) == pollTimers \cup {[loop |-> r.loop, kind |-> r.kind]}

\* poll timers after the catch block of a poll handler: it schedules nothing
PollTimersAfterCatch(r) == pollTimers

\* ------------------------------------------------------------------ actions
\* manualPdfInput 'change': the upload button follows the file selection
ManualPdfChange(selected) ==
    /\ hasFile' = selected
    /\ uploadBtnDisabled' = ~selected
    /\ hasFile # selected
    /\ UNCHANGED <<currentJobId, nStarts, net, formDisabled, progressVisible,
                   progressUI, foundPdfs, resultsUI, terminal, render>>

\* a start handler that begins to poll without waiting for the submission
StartJobEager(kind, pct, text) ==
    /\ nStarts < MaxStarts
    /\ nStarts' = nStarts + 1
    /\ progressVisible' = TRUE
    /\ formDisabled' = TRUE
    /\ progressFill' = pct
    /\ progressText' = text
    /\ progressBy' = [loop |-> nStarts + 1, id |-> NoJob, src |-> "start"]
    /\ submits' = submits \cup {[att |-> nStarts + 1, kind |-> kind]}
    /\ statusReqs' = IF currentJobId = NoJob THEN statusReqs
                     ELSE statusReqs \cup {[loop |-> nStarts + 1, id |-> currentJobId,
                                           kind |-> kind]}
    /\ UNCHANGED <<currentJobId, pollTimers, hideTimers, upload,
                   foundPdfs, resultsUI, terminal, render>>

\* the part of a start handler before its fetch is answered
StartJob(kind, pct, text) ==
    /\ nStarts < MaxStarts
    /\ nStarts' = nStarts + 1
    /\ progressVisible' = TRUE
    /\ formDisabled' = TRUE
    /\ progressFill' = pct
    /\ progressText' = text
    /\ progressBy' = [loop |-> nStarts + 1, id |-> NoJob, src |-> "start"]
    /\ submits' = submits \cup {[att |-> nStarts + 1, kind |-> kind]}
    /\ UNCHANGED <<currentJobId, statusReqs, pollTimers, hideTimers, upload,
                   foundPdfs, resultsUI, terminal, render>>

\* submit event of #research-form; a disabled submit button blocks the event
startAutomatedResearch ==
    /\ ~formDisabled
    /\ \E topic \in Topics : ~TrimIsEmpty(topic)
    /\ StartJob("research", 5, "Starting research...")

\* click on #upload-manual; a disabled button receives no click
processManualPdf ==
    /\ ~uploadBtnDisabled
    /\ hasFile
    /\ StartJob("pdf", 10, "Uploading PDF...")

\* catch block of a start handler
SubmitCatch(s) ==
    /\ submits' = submits \ {s}
    /\ progressFill' = 0
    /\ progressText' = SubmitErrorText(s.kind)
    /\ progressBy' = [loop |-> s.att, id |-> NoJob, src |-> "submit_error"]
    /\ hideTimers' = hideTimers + 1
    /\ UNCHANGED <<currentJobId, nStarts, statusReqs, pollTimers, upload,
                   formDisabled, progressVisible, foundPdfs, resultsUI, terminal, render>>

\* a 2xx answer whose JSON body parsed; job_id is the server's id or absent.
\* The poll handler is called at once and returns early without a job id.
SubmitOk(s, job_id) ==
    /\ submits' = submits \ {s}
    /\ currentJobId' = job_id
    /\ IF s.kind = "pdf"
       THEN /\ progressFill' = 30
            /\ progressText' = "Processing PDF..."
            /\ progressBy' = [loop |-> s.att, id |-> job_id, src |-> "submitted"]
       ELSE UNCHANGED progressUI
    /\ statusReqs' = IF job_id = NoJob THEN statusReqs
                     ELSE statusReqs \cup {[loop |-> s.att, id |-> job_id, kind |-> s.kind]}
    /\ UNCHANGED <<nStarts, pollTimers, hideTimers, upload, formDisabled,
                   progressVisible, foundPdfs, resultsUI, terminal, render>>

\* the rest of a start handler, run when its fetch is answered
SubmitResume(s, outcome) ==
    CASE outcome = "ok_job_id" -> SubmitOk(s, s.att)
      [] outcome = "ok_no_job_id" -> SubmitOk(s, NoJob)
      [] OTHER -> SubmitCatch(s)

startAutomatedResearchResume(s, outcome) ==
    /\ s.kind = "research"
    /\ SubmitResume(s, outcome)

processManualPdfResume(s, outcome) ==
    /\ s.kind = "pdf"
    /\ SubmitResume(s, outcome)

\* a poll timer fires: the poll handler reads this.currentJobId and fetches
\* the status of that id, or returns when there is none
TrackCall(t) ==
    /\ pollTimers' = pollTimers \ {t}
    /\ statusReqs' = IF currentJobId = NoJob THEN statusReqs
                     ELSE statusReqs \cup {[loop |-> t.loop, id |-> currentJobId,
                                           kind |-> t.kind]}
    /\ UNCHANGED <<currentJobId, nStarts, submits, hideTimers, upload, formDisabled,
                   progressVisible, progressUI, foundPdfs, resultsUI, terminal, render>>

trackResearchProgress(t) ==
    /\ t.kind = "research"
    /\ TrackCall(t)

trackPdfProcessing(t) ==
    /\ t.kind = "pdf"
    /\ TrackCall(t)

\* the status fetch rejects or its body is not JSON: catch block
TrackFetchFails(r) ==
    /\ statusReqs' = statusReqs \ {r}
    /\ pollTimers' = PollTimersAfterCatch(r)
    /\ progressFill' = 0
    /\ progressText' = "Tracking error: <message>"
    /\ progressBy' = [loop |-> r.loop, id |-> r.id, src |-> "track_error"]
    /\ hideTimers' = hideTimers + 1
    /\ UNCHANGED <<currentJobId, nStarts, submits, upload, formDisabled,
                   progressVisible, foundPdfs, resultsUI, terminal, render>>

\* the status fetch is answered with a JSON body p; response.ok is not read
TrackResume(r, ok, p) ==
    LET dr == displayResults(p.results)
        threw == IsCompleted(p) /\ dr.threw
    IN
    /\ statusReqs' = statusReqs \ {r}
    /\ foundPdfs' = IF p.found THEN r.id ELSE foundPdfs
    /\ terminal' = IF p.status \in {"completed", "failed"}
                   THEN terminal \cup {r.id} ELSE terminal
    /\ IF IsCompleted(p)
       THEN \* displayResults: hideProgress, then the results section
            /\ progressVisible' = FALSE
            /\ formDisabled' = FALSE
            /\ resultsShown' = TRUE
            /\ resultsBy' = r.id
            /\ resultsStats' = dr.stats
            /\ researchSummary' = dr.summary
            /\ tablesContainer' = dr.container
       ELSE UNCHANGED <<progressVisible, formDisabled, resultsUI>>
    /\ IF threw
       THEN /\ progressFill' = 0
            /\ progressText' = "Tracking error: <message>"
            /\ progressBy' = [loop |-> r.loop, id |-> r.id, src |-> "track_error"]
            /\ hideTimers' = hideTimers + 1
            /\ pollTimers' = PollTimersAfterCatch(r)
       ELSE IF p.status = "failed"
       THEN /\ progressFill' = 0
            /\ progressText' = FailedText(r.kind, p.error)
            /\ progressBy' = [loop |-> r.loop, id |-> r.id, src |-> "failed"]
            /\ hideTimers' = hideTimers + 1
            /\ UNCHANGED pollTimers
       ELSE /\ progressFill' = FillAfter(p.progress)
            /\ progressText' = p.message
            /\ progressBy' = [loop |-> r.loop, id |-> r.id,
                              src |-> IF p.status = "completed" THEN "completed"
                                      ELSE "status"]
            /\ UNCHANGED hideTimers
            /\ pollTimers' = IF IsCompleted(p) THEN pollTimers
                             ELSE pollTimers \cup {[loop |-> r.loop, kind |-> r.kind]}
    /\ UNCHANGED <<currentJobId, nStarts, submits, upload, render>>

trackResearchProgressResume(r) ==
    /\ r.kind = "research"
    /\ \/ TrackFetchFails(r)
       \/ \E ok \in BOOLEAN : \E p \in HttpBodies("research", ok) : TrackResume(r, ok, p)

trackPdfProcessingResume(r) ==
    /\ r.kind = "pdf"
    /\ \/ TrackFetchFails(r)
       \/ \E ok \in BOOLEAN : \E p \in HttpBodies("pdf", ok) : TrackResume(r, ok, p)

\* a hide that forgets disableForm(false)
hideProgressKeepsFormDisabled ==
    /\ hideTimers > 0
    /\ hideTimers' = hideTimers - 1
    /\ progressVisible' = FALSE
    /\ UNCHANGED <<currentJobId, nStarts, submits, statusReqs, pollTimers, upload,
                   formDisabled, progressUI, foundPdfs, resultsUI, terminal, render>>

\* a hideProgressAfterDelay timer fires
hideProgress ==
    /\ hideTimers > 0
    /\ hideTimers' = hideTimers - 1
    /\ progressVisible' = FALSE
    /\ formDisabled' = FALSE
    /\ UNCHANGED <<currentJobId, nStarts, submits, statusReqs, pollTimers, upload,
                   progressUI, foundPdfs, resultsUI, terminal, render>>

Next ==
    \/ \E selected \in BOOLEAN : ManualPdfChange(selected)
    \/ startAutomatedResearch
    \/ processManualPdf
    \/ \E s \in submits, o \in SubmitOutcomes : startAutomatedResearchResume(s, o)
    \/ \E s \in submits, o \in SubmitOutcomes : processManualPdfResume(s, o)
    \/ \E t \in pollTimers : trackResearchProgress(t)
    \/ \E t \in pollTimers : trackPdfProcessing(t)
    \/ \E r \in statusReqs : trackResearchProgressResume(r)
    \/ \E r \in statusReqs : trackPdfProcessingResume(r)
    \/ hideProgress

Spec == Init /\ [][Next]_vars

\* a pending setTimeout(hideProgress, 3000) fires after its delay
FairSpec == Spec /\ WF_vars(hideProgress)

\* ------------------------------------------------ answered status requests
\* a status request is answered: its fetch resolves with a JSON body
StatusAnswered(r) ==
    \E ok \in BOOLEAN : \E p \in HttpBodies(r.kind, ok) : TrackResume(r, ok, p)

trackResearchProgressAnswered(r) ==
    /\ r.kind = "research"
    /\ StatusAnswered(r)

trackPdfProcessingAnswered(r) ==
    /\ r.kind = "pdf"
    /\ StatusAnswered(r)

\* the steps of the session when no status fetch rejects
PollNext ==
    \/ \E selected \in BOOLEAN : ManualPdfChange(selected)
    \/ startAutomatedResearch
    \/ processManualPdf
    \/ \E s \in submits, o \in SubmitOutcomes : startAutomatedResearchResume(s, o)
    \/ \E s \in submits, o \in SubmitOutcomes : processManualPdfResume(s, o)
    \/ \E t \in pollTimers : trackResearchProgress(t)
    \/ \E t \in pollTimers : trackPdfProcessing(t)
    \/ \E r \in statusReqs : trackResearchProgressAnswered(r)
    \/ \E r \in statusReqs : trackPdfProcessingAnswered(r)
    \/ hideProgress

\* a submission request is answered
SubmitAnswered == \E s \in submits, o \in SubmitOutcomes : SubmitResume(s, o)

\* the next step of the poll loop of attempt a: its timer fires or its
\* status request is answered
LoopStep(a) ==
    \/ \E t \in pollTimers : t.loop = a /\ TrackCall(t)
    \/ \E r \in statusReqs : r.loop = a /\ StatusAnswered(r)

\* the server answers a status request for job j with completed or failed
TerminalReport(j) ==
    \E r \in statusReqs :
       /\ r.id = j
       /\ \E p \in StatusPayloads(r.kind) :
             p.status \in {"completed", "failed"} /\ TrackResume(r, TRUE, p)

\* every request is answered, every poll timer fires, and a job that is
\* asked about again and again is at last reported completed or failed
PollSpec ==
    /\ Init /\ [][PollNext]_vars
    /\ WF_vars(SubmitAnswered)
    /\ \A a \in 1..MaxStarts : WF_vars(LoopStep(a)) /\ SF_vars(TerminalReport(a))

\* ----------------------------------------------------- renderer functions
\* quality scores in units of 0.00001, around the two thresholds
Scores == {Absent, 0, 1, MediumScore - 1, MediumScore, HighScore - 1, HighScore, 100000}

\* numbers of data rows, around the preview cap
RowCounts == {0, 1, 2, PreviewRows - 1, PreviewRows, PreviewRows + 1, MaxRows}

\* the values of column b down the rows of a table
CellPatterns ==
    {<<v>> : v \in CellValues} \cup {<<Str(1), Undefined>>, <<Undefined, Num(7)>>}

\* explicit columns of a table
ColumnLists == {<<>>, <<"a">>, <<"a", "b">>, <<"b", "a">>}

\* table objects handed to createTableCard
TableInputs ==
    {TableEntry("object", TRUE, DataRows(n, bs), FALSE, <<>>, rc, po, 70000) :
        n \in RowCounts, bs \in CellPatterns, rc \in {Absent, MaxRows},
        po \in BOOLEAN}
    \cup
    {TableEntry("object", TRUE, DataRows(n, <<Num(0), Undefined>>), TRUE, cs, n, po, Absent) :
        n \in RowCounts, cs \in ColumnLists, po \in BOOLEAN}
    \cup
    {TableEntry("object", FALSE, <<>>, hc, <<"a", "b">>, rc, po, 0) :
        hc \in BOOLEAN, rc \in {Absent, 0, 3}, po \in BOOLEAN}

\* entries of the tables lists handed to displayTables
EntryKinds == {SampleTable, StringEntry, NullEntry}
EntryLists ==
    {<<>>} \cup {<<x>> : x \in EntryKinds}
    \cup {<<x, y>> : x \in EntryKinds, y \in EntryKinds}
    \cup {<<x, y, z>> : x \in EntryKinds, y \in EntryKinds, z \in EntryKinds}

\* result payloads handed to displayResults: the explicit count and the
\* tables list are independent of each other
ResultInputs ==
    {[defined |-> TRUE, table_count |-> tc, hasTables |-> ht,
      tables |-> ts, processing_time |-> pt] :
        tc \in {Absent, 0, 2, 5}, ht \in {TRUE},
        ts \in {<<>>, <<SampleTable>>, <<SampleTable, StringEntry>>},
        pt \in {Absent, 0, 3}}
    \cup
    {[defined |-> TRUE, table_count |-> tc, hasTables |-> FALSE,
      tables |-> <<>>, processing_time |-> pt] :
        tc \in {Absent, 0, 2, 5}, pt \in {Absent, 0, 3}}

getQualityColorCall ==
    /\ \E score \in Scores :
          /\ call' = [fn |-> "getQualityColor", arg |-> score]
          /\ ret' = getQualityColor(score)
    /\ UNCHANGED lifecycle

createTableCardCall ==
    /\ \E table \in TableInputs :
          /\ call' = [fn |-> "createTableCard", arg |-> table]
          /\ ret' = createTableCard(table, 1)
    /\ UNCHANGED lifecycle

displayTablesCall ==
    /\ \E tables \in EntryLists :
          /\ call' = [fn |-> "displayTables", arg |-> tables]
          /\ ret' = displayTables(tables)
    /\ UNCHANGED lifecycle

displayResultsCall ==
    /\ \E results \in ResultInputs :
          /\ call' = [fn |-> "displayResults", arg |-> results]
          /\ ret' = displayResults(results)
    /\ UNCHANGED lifecycle

RenderNext ==
    \/ getQualityColorCall
    \/ createTableCardCall
    \/ displayTablesCall
    \/ displayResultsCall

\* the renderer functions applied to payloads of any shape, on a fresh page
RenderSpec == Init /\ [][RenderNext]_vars

\* ------------------------------------------------------------- type invariant
TypeOK ==
    /\ currentJobId \in 0..MaxStarts
    /\ nStarts \in 0..MaxStarts
    /\ \A s \in submits : s.att \in 1..nStarts /\ s.kind \in {"research", "pdf"}
    /\ \A r \in statusReqs : r.loop \in 1..nStarts /\ r.id \in 1..nStarts
    /\ \A t \in pollTimers : t.loop \in 1..nStarts
    /\ hideTimers \in 0..(2 * MaxStarts)
    /\ uploadBtnDisabled = ~hasFile
    /\ progressFill \in {0, 5, 10, 30, 40, 100}
    /\ terminal \subseteq 1..nStarts

\* ------------------------------------------------------------------- claims
\* a job is submitting or polling
JobActive == submits # {} \/ statusReqs # {} \/ pollTimers # {}

\* the status requests issued by the step
Issued == statusReqs' \ statusReqs

\* the poll loop of attempt a has a request in flight or a poll scheduled
LoopAlive(a) ==
    \/ \E r \in statusReqs : r.loop = a
    \/ \E t \in pollTimers : t.loop = a

\* C1: a start issued while a job is submitting or polling is rejected: it
\* sends no submission request and leaves the current job id unchanged.
C1_StartRejectedWhileActive ==
    [][(JobActive /\ nStarts' # nStarts)
          => (submits' = submits /\ currentJobId' = currentJobId)]_vars

\* C2: at most one status request is outstanding for a given job id.
C2_OneStatusRequestPerJob ==
    \A r1, r2 \in statusReqs : r1.id = r2.id => r1 = r2

\* C3: a status response for a job id that is no longer the current job id
\* changes neither the progress, nor the found-items list, nor the displayed
\* results, and schedules no further poll.
C3_StaleResponseDiscarded ==
    [][\A r \in statusReqs :
          (r.id # currentJobId /\ r \notin statusReqs')
             => /\ UNCHANGED <<progressFill, progressText, foundPdfs, resultsShown,
                               resultsStats, researchSummary, tablesContainer>>
                /\ pollTimers' \subseteq pollTimers]_vars

\* C4: after a new job's id has been assigned, the poll loop started for an
\* earlier job issues no further status request: every request issued is
\* issued by the loop of the current job.
C4_SupersededLoopStops ==
    [][\A r \in Issued : r.loop = currentJobId']_vars

\* C5: once a status response has reported completed or failed for a job id,
\* no status request is issued again for that id.
C5_NoPollAfterTerminal ==
    [][\A r \in Issued : r.id \notin terminal]_vars

\* C6: a 2xx submission response without a job id moves the job to Failed:
\* an error message is shown and the delayed re-enabling of the form is
\* scheduled, whereas the tracker is never left with nothing pending, no
\* error shown and the form disabled.
C6_MissingJobIdFails ==
    [][\A s \in submits :
          SubmitOk(s, NoJob)
             => /\ progressText' \in ErrorTexts
                /\ hideTimers' > hideTimers
                /\ ~(formDisabled' /\ ~JobActive' /\ hideTimers' = 0)]_vars

\* C7: a non-2xx response to a submission or to a status poll fails the job:
\* an error message is shown and no further request or poll follows from it.
C7_Non2xxFails ==
    [][/\ \A s \in submits :
             SubmitResume(s, "non_2xx")
                => progressText' \in ErrorTexts /\ ~LoopAlive(s.att)'
       /\ \A r \in statusReqs : \A p \in ErrorBodies :
             TrackResume(r, FALSE, p)
                => progressText' \in ErrorTexts /\ ~LoopAlive(r.loop)']_vars

C9_NoPartialSuccess ==
    ~(/\ resultsShown
      /\ resultsBy # NoJob
      /\ progressText \in ErrorTexts
      /\ progressBy.id = resultsBy)

\* C10 as stated: while the submission of a start is unanswered, no progress
\* update of that start has been delivered.
C10_NoProgressBeforeSubmitted ==
    \A s \in submits : progressBy.loop # s.att

\* C10 amended: while the submission of a start is unanswered, the only
\* progress update of that start is the fixed initial one written by the
\* start handler, and its poll loop has issued no status request and
\* scheduled no poll: polling begins with the answer to the submission.
C10_OnlyInitialProgressBeforeSubmitted ==
    \A s \in submits :
        /\ progressBy.loop = s.att
              => /\ progressBy.src = "start"
                 /\ progressText \in {"Starting research...", "Uploading PDF..."}
                 /\ progressFill \in {5, 10}
        /\ ~LoopAlive(s.att)

\* a start is submitting with its initial progress shown while the loop of an
\* earlier job is polling
C10_Witness ==
    \E s \in submits :
        /\ progressBy = [loop |-> s.att, id |-> NoJob, src |-> "start"]
        /\ \E r \in statusReqs : r.loop # s.att

C12_FailedJobReturnsToIdle ==
    /\ [][(progressText' \in ErrorTexts /\ progressBy' # progressBy)
             => hideTimers' = hideTimers + 1]_vars
    /\ (hideTimers > 0) ~> (~progressVisible /\ ~formDisabled)

\* a failed job's delayed hide has fired: the error text is still in the
\* hidden progress section and the form is enabled again
C12_Witness ==
    /\ progressText \in ErrorTexts
    /\ hideTimers = 0
    /\ ~progressVisible
    /\ ~formDisabled
    /\ ~resultsShown

\* C13: the kind of a job determines its status endpoint: a status request
\* that carries the id of job j goes to the endpoint of the kind of the start
\* that submitted j, which is the kind of the poll loop that start began.
C13_EndpointMatchesKind ==
    \A r \in statusReqs :
        /\ \A q \in statusReqs : q.loop = r.id => q.kind = r.kind
        /\ \A t \in pollTimers : t.loop = r.id => t.kind = r.kind

\* C14: when a status response reports failed, the message shown holds the
\* server's error text if the payload has one and a generic failure message
\* otherwise, never the text of an absent value.
C14_FailedMessageText ==
    progressBy.src = "failed"
        => progressText \notin {"Research failed: undefined",
                                "Processing failed: undefined"}

\* C17: after the results of a job whose payload carries no processing
\* duration are displayed, the summary holds no duration sentence and no
\* restated table count, whatever jobs completed before.
C17_NoDurationNoSummary ==
    [][\A r \in statusReqs :
          (r \notin statusReqs' /\ r.id \in terminal')
             => \A p \in CompletedBodies(r.kind) :
                   (/\ p.results.defined
                    /\ p.results.processing_time = Absent
                    /\ TrackResume(r, TRUE, p))
                      => researchSummary'.time = Absent]_vars

\* the quality tier a colour of getQualityColor stands for
TierOf(color) ==
    CASE color = "#28a745" -> "high"
      [] color = "#ffc107" -> "medium"
      [] color = "#dc3545" -> "low"
      [] OTHER -> "unknown"

\* C15: the tier of a score is high from 0.8, medium from 0.6 to below 0.8,
\* low below 0.6 (the score 0 included) and unknown exactly when the score
\* is absent.
C15_QualityTiers ==
    call.fn = "getQualityColor"
        => TierOf(ret) = (IF call.arg = Absent THEN "unknown"
                          ELSE IF call.arg >= HighScore THEN "high"
                          ELSE IF call.arg >= MediumScore THEN "medium"
                          ELSE "low")

\* C16: the table count of the stats line is the payload's explicit count
\* whenever that count is present (an explicit 0 included), otherwise the
\* length of the tables list if the list is present, otherwise 0.
C16_TableCount ==
    call.fn = "displayResults"
        => ret.stats = (IF call.arg.table_count # Absent THEN call.arg.table_count
                        ELSE IF call.arg.hasTables THEN Len(call.arg.tables)
                        ELSE 0)

\* C18: for a table with n data rows the rendered body is exactly the first
\* min(n, 50) rows, in their order, whatever row count the payload reports.
C18_BodyIsFirstFiftyRows ==
    (call.fn = "createTableCard" /\ call.arg.hasData)
        => LET data == call.arg.data
               html == ret.html
           IN  /\ Len(html.body) = Min(Len(data), 50)
               /\ \A i \in 1..Len(html.body) :
                     html.body[i] = [j \in 1..Len(html.headers) |->
                                        CellText(data[i], html.headers[j])]

\* a table of more rows than the cap, with a reported row count that is
\* absent or larger, has been rendered with 50 body rows
C18_Witness ==
    /\ call.fn = "createTableCard"
    /\ call.arg.hasData
    /\ Len(call.arg.data) = MaxRows
    /\ call.arg.row_count \in {Absent, MaxRows}
    /\ Len(ret.html.body) = 50
    /\ ret.html.body[50][1] = "50"

\* C19: a table is marked truncated exactly when its row count exceeds 50
\* or the server flagged it preview_only.
C19_TruncatedMark ==
    call.fn = "createTableCard"
        => (ret.note <=> \/ call.arg.preview_only
                         \/ Len(call.arg.data) > 50
                         \/ call.arg.row_count > 50)

\* C20: a malformed entry (a string, null) among the entries of a tables
\* list aborts nothing: no error is raised, every table object is rendered
\* as its card and the malformed entry as one 'no data' card.
C20_MalformedEntryDegrades ==
    (call.fn = "displayTables" /\ Len(call.arg) > 0)
        => /\ ~ret.threw
           /\ Len(ret.container) = Len(call.arg)
           /\ \A i \in 1..Len(call.arg) :
                 IF call.arg[i].type = "object"
                 THEN ret.container[i] = createTableCard(call.arg[i], i)
                 ELSE ret.container[i].html.kind = "no-data"

\* C21: a table with zero data rows (data absent or empty) is rendered as
\* the 'no data' placeholder and never as an empty table, also when the
\* payload reports a positive row count or supplies explicit columns.
C21_NoDataPlaceholder ==
    (call.fn = "createTableCard" /\ (~call.arg.hasData \/ Len(call.arg.data) = 0))
        => ret.html = [kind |-> "no-data", headers |-> <<>>, body |-> <<>>]

\* an empty data list with a reported row count of MaxRows has been rendered
C21_Witness ==
    /\ call.fn = "createTableCard"
    /\ call.arg.hasData
    /\ Len(call.arg.data) = 0
    /\ call.arg.row_count = MaxRows
    /\ ret.html.kind = "no-data"

\* C22: in every rendered row and header column, a cell whose value is
\* missing in that row (undefined, null) is the empty string and never the
\* text 'undefined' or 'null'.
C22_MissingCellIsEmpty ==
    (call.fn = "createTableCard" /\ ret.html.kind = "table")
        => \A i \in 1..Len(ret.html.body) : \A j \in 1..Len(ret.html.headers) :
              Cell(call.arg.data[i], ret.html.headers[j]) \in {Undefined, Null}
                 => ret.html.body[i][j] = ""

\* a table whose second row lacks the key b of the header has been rendered
C22_Witness ==
    /\ call.fn = "createTableCard"
    /\ ret.html.kind = "table"
    /\ ret.html.headers = <<"a", "b">>
    /\ Len(ret.html.body) >= 2
    /\ call.arg.data[2].b = Undefined
    /\ ret.html.body[2] = <<"2", "">>

\* C23: whenever a job is submitting or polling, the progress section is
\* visible and the research form controls are disabled.
C23_ActiveJobKeepsProgress ==
    JobActive => (progressVisible /\ formDisabled)

\* C25: in every rendered row and header column, a cell whose value is
\* present in the row, the values 0 and false included, is rendered as that
\* value and not as the empty string.
C25_PresentCellIsShown ==
    (call.fn = "createTableCard" /\ ret.html.kind = "table")
        => \A i \in 1..Len(ret.html.body) : \A j \in 1..Len(ret.html.headers) :
              Cell(call.arg.data[i], ret.html.headers[j]) \notin {Undefined, Null}
                 => ret.html.body[i][j] = ToText(Cell(call.arg.data[i], ret.html.headers[j]))

\* C24: when every request is answered and the server comes to report
\* completed or failed, every job that was submitted and polled reaches
\* Completed or Failed, and then no status request for it is in flight and
\* its poll loop has no poll scheduled.
C24_PollLoopTerminates ==
    \A j \in 1..MaxStarts :
       (\E r \in statusReqs : r.id = j)
          ~> (/\ j \in terminal
              /\ ~LoopAlive(j)
              /\ ~\E r \in statusReqs : r.id = j)

====
